---- MODULE Spec2Model ----
(***************************************************************************)
(* Verification model of the inventory/invoicing backend.                  *)
(*                                                                         *)
(*  - Transaction poster: app/crud.py create_transaction, called by        *)
(*    app/main.py create_transaction; one SQLAlchemy session per request   *)
(*    (app/database.py get_db), requests served concurrently.              *)
(*  - Product update: app/main.py + app/crud.py update_product.            *)
(*  - Transaction update and delete: app/crud.py update_transaction and    *)
(*    delete_transaction, one request at a time.                           *)
(*  - Catalogue: app/main.py create_product and import_products.           *)
(*  - Invoice renderer: app/invoice_pdf.py generate_invoice_pdf (page      *)
(*    distribution, page geometry, the drawing operations of each page).   *)
(*  - Amount in words: app/invoice_pdf.py number_to_words.                 *)
(*                                                                         *)
(* Money is held in whole currency units; total_amount is held in          *)
(* hundredths of a unit (PercentBase), so that subtotal * vat / 100 is     *)
(* exact.                                                                  *)
(***************************************************************************)
EXTENDS Bags, Integers, Sequences, FiniteSets, TLC

\* ------------------------------------------------------------------ bounds

\* number of requests the server accepts in one behaviour
MaxRequests == 2
\* largest number of item rows of a rendered invoice
MaxItemRows == 52
\* number of times the invoice is rendered in one behaviour
MaxCalls == 2
\* minutes the clock advances in one behaviour
MaxClock == 1
\* amounts of 0..MaxDinars Dinars are put into words (and some larger ones)
MaxDinars == 25

\* ------------------------------------------------------- program constants

\* total = subtotal + (subtotal * vat_percent / 100)
PercentBase == 100

\* worker threads serving requests, each with its own session (get_db)
Sessions == {1, 2}

\* seeded catalogue
ProductIds == {1, 2}
PartnerIds == {1}
CurrentUser == "admin"

PURCHASE == "purchase"
SALE == "sale"

\* ------------------------------------------------------------------ inputs

\* TransactionItemBase as sent by a client
ItemsOf(quantities, prices, discounts) ==
    [product_id : ProductIds, quantity : quantities, price : prices, discount : discounts]

\* item lists of one or two lines
ItemLists(items) == UNION {[1..n -> items] : n \in {1, 2}}

\* request bodies of POST /transactions/; vat_percent is sent by the client
BodiesOf(items, vats) ==
    [partner_id : PartnerIds, type : {PURCHASE, SALE}, items : ItemLists(items), vat_percent : vats]

\* bodies sent to the concurrent server
Bodies == BodiesOf(ItemsOf({2}, {3}, {0}), {0})

\* bodies of the single posting of SpecSeq
WideBodies == BodiesOf(ItemsOf({1, 2}, {1, 3}, {0, 1}), {0, 10})

\* bodies of PUT /products/{id}
ProductBodies == [price : {3, 5}, cost_price : {2, 4}, stock_quantity : {2}]

\* product rows the single posting of SpecSeq may find
SeedProducts == [price : {3}, cost_price : {2}, stock_quantity : {1, 3}]

\* ------------------------------------------------------------------- state

VARIABLES
    products,           \* table products: id -> row
    transactions,       \* table transactions: sequence of rows, in insertion order
    transaction_items,  \* table transaction_items: sequence of rows
    next_id,            \* autoincrement counters of the two tables
    sess,               \* per worker: the request in progress and its session
    resp,               \* per worker: the last HTTP response
    reqs,               \* number of requests accepted so far
    assets,             \* renderer: the image files of the static directory
    inv,                \* renderer: the invoice snapshot and edit metadata of the call
    lay,                \* renderer: the locals of generate_invoice_pdf
    doc,                \* renderer: the pages drawn on the canvas so far
    now,                \* the wall clock, in minutes
    returned,           \* renderer: the documents returned for inv, in call order
    num,                \* number_to_words: the amount
    words,              \* number_to_words: the returned text, as a list of words
    skus,               \* column sku of table products, in insertion order
    mk,                 \* crud.create_product: the locals of the call in progress
    clock,              \* int(time.time()), in seconds
    user_creation_attempts,  \* main.user_creation_attempts: address -> times
    user_creation_lock, \* main.user_creation_lock: its holder, 0 when free
    thr,                \* per handler thread: the locals of check_rate_limit
    verdicts,           \* the calls of check_rate_limit that returned: a bag
    bill,               \* the items and VAT percent of one transaction
    pdf_totals,         \* generate_invoice_pdf: the aggregates of its item loop
    post_totals         \* create_transaction: subtotal, total_discount, total

poster_vars == <<products, transactions, transaction_items, next_id, sess, resp, reqs>>
render_vars == <<assets, inv, lay, doc, now, returned>>
words_vars == <<num, words>>
sku_vars == <<skus, mk>>
limiter_vars ==
    <<clock, user_creation_attempts, user_creation_lock, thr, verdicts>>
totals_vars == <<bill, pdf_totals, post_totals>>
vars ==
    <<poster_vars, render_vars, words_vars, sku_vars, limiter_vars, totals_vars>>

not_poster == <<render_vars, words_vars, sku_vars, limiter_vars, totals_vars>>
not_render == <<poster_vars, words_vars, sku_vars, limiter_vars, totals_vars>>
not_words == <<poster_vars, render_vars, sku_vars, limiter_vars, totals_vars>>
not_sku == <<poster_vars, render_vars, words_vars, limiter_vars, totals_vars>>
not_limiter == <<poster_vars, render_vars, words_vars, sku_vars, totals_vars>>
not_totals == <<poster_vars, render_vars, words_vars, sku_vars, limiter_vars>>

Idle == [pc |-> "idle"]
NoResponse == [kind |-> "none"]

\* the empty function: a session with nothing loaded
EmptyMap == [p \in {} |-> 0]

InitProduct == [price |-> 3, cost_price |-> 2, stock_quantity |-> 3]

\* no invoice requested
RenderIdle ==
    /\ assets = [header |-> "ok", footer |-> "ok"]
    /\ inv = [n_items |-> 0, name_len |-> 0, address_len |-> 0,
              partner |-> "text", product |-> "text", amounts |-> "text",
              date |-> "text", edit_sales_person |-> "text",
              sales_person |-> "text"]
    /\ lay = [pc |-> "idle"]
    /\ doc = <<>>
    /\ now = 0
    /\ returned = <<>>

\* number_to_words not called
WordsIdle ==
    /\ num = [fils |-> 0, tenths |-> 0]
    /\ words = <<>>

\* no product being created; the SKUs "A" and "B" of the two seeded products
SkuIdle ==
    /\ skus = <<[stem |-> "A", suffix |-> <<>>], [stem |-> "B", suffix |-> <<>>]>>
    /\ mk = [pc |-> "idle"]

\* the limiter as the module is imported: no attempt recorded, lock free
Threads == {1, 2}

LimiterIdle ==
    /\ clock = 0
    /\ user_creation_attempts = EmptyMap
    /\ user_creation_lock = 0
    /\ thr = [t \in Threads |-> [pc |-> "idle"]]
    /\ verdicts = EmptyBag

\* no amounts being added up
TotalsIdle ==
    /\ bill = [items |-> <<>>, vat_percent |-> 0]
    /\ pdf_totals = [pc |-> "idle"]
    /\ post_totals = [pc |-> "idle"]

\* the seeded database, no request in progress
PosterInit ==
    /\ products = [p \in ProductIds |-> InitProduct]
    /\ transactions = <<>>
    /\ transaction_items = <<>>
    /\ next_id = [txn |-> 1, item |-> 1]
    /\ sess = [s \in Sessions |-> Idle]
    /\ resp = [s \in Sessions |-> NoResponse]
    /\ reqs = 0

Init == PosterInit /\ RenderIdle /\ WordsIdle /\ SkuIdle /\ LimiterIdle /\ TotalsIdle

\* ------------------------------------------------------ create_transaction

\* schemas.TransactionCreate(**body): the fields the schema declares; any other
\* key of the body (vat_percent) is dropped by the parse
TransactionCreate(body) ==
    [partner_id |-> body.partner_id,
     type |-> body.type,
     items |-> body.items,
     sales_person |-> CurrentUser]

\* getattr(transaction, 'vat_percent', 0) or 0
getattr_vat_percent(transaction) ==
    IF "vat_percent" \in DOMAIN transaction THEN transaction.vat_percent ELSE 0

\* item_total - item_discount
item_net(item) == item.price * item.quantity - item.discount

\* mutant: the selling price check compares one unit too low
below_cost_off_by_one(price, cost_price) == price + 1 < cost_price

\* item.price < product.cost_price
below_cost(price, cost_price) == price < cost_price

\* total = subtotal + (subtotal * vat_percent / 100), in hundredths
compute_total(subtotal, vat_percent) == subtotal * PercentBase + subtotal * vat_percent

\* mutant: the stock check lets a sale take one unit more than there is
not_enough_stock_off_by_one(stock_quantity, quantity) == stock_quantity + 1 < quantity

\* product.stock_quantity < item.quantity
not_enough_stock(stock_quantity, quantity) == stock_quantity < quantity

\* mutant: every query reads the row from the table anew
query_product_from_table(loaded, pid) ==
    IF pid \in DOMAIN products
    THEN [p \in DOMAIN loaded \cup {pid} |->
            IF p = pid
            THEN [cost_price |-> products[pid].cost_price,
                  stock_quantity |-> products[pid].stock_quantity,
                  dirty |-> FALSE]
            ELSE loaded[p]]
    ELSE loaded

\* db.query(models.Product).filter(id == pid).first(): the identity map of the
\* session answers for a row it already holds, the table for any other
query_product(loaded, pid) ==
    IF pid \in DOMAIN loaded THEN loaded
    ELSE IF pid \in DOMAIN products
         THEN [p \in DOMAIN loaded \cup {pid} |->
                 IF p = pid
                 THEN [cost_price |-> products[pid].cost_price,
                       stock_quantity |-> products[pid].stock_quantity,
                       dirty |-> FALSE]
                 ELSE loaded[p]]
         ELSE loaded

\* the UPDATE statements of a flush: every modified product row gets the
\* session's value
flush_products(loaded) ==
    [p \in DOMAIN products |->
        IF p \in DOMAIN loaded /\ loaded[p].dirty
        THEN [products[p] EXCEPT !.stock_quantity = loaded[p].stock_quantity]
        ELSE products[p]]

\* the INSERT statements of a flush for the pending TransactionItems
RECURSIVE with_ids(_, _)
with_ids(pending, first) ==
    IF pending = <<>> THEN <<>>
    ELSE <<[id |-> first] @@ Head(pending)>> \o with_ids(Tail(pending), first + 1)

\* a worker at the entry of crud.create_transaction with a fresh session
Posting(body) ==
    [pc |-> "validate", body |-> body,
     transaction |-> TransactionCreate(body),
     i |-> 1, subtotal |-> 0, total_discount |-> 0,
     txn_id |-> 0, loaded |-> EmptyMap, pending |-> <<>>]

\* main.create_transaction: the request is parsed and handed to crud
BeginPost(s, body) ==
    /\ sess[s].pc = "idle"
    /\ reqs < MaxRequests
    /\ reqs' = reqs + 1
    /\ sess' = [sess EXCEPT ![s] = Posting(body)]
    /\ resp' = [resp EXCEPT ![s] = NoResponse]
    /\ UNCHANGED <<products, transactions, transaction_items, next_id>>
    /\ UNCHANGED not_poster

\* one round of the first loop: subtotal, and the selling price check of a sale
ValidateItem(s) ==
    /\ sess[s].pc = "validate"
    /\ sess[s].i <= Len(sess[s].transaction.items)
    /\ LET t == sess[s].transaction
           item == t.items[sess[s].i]
           loaded == IF t.type = SALE THEN query_product(sess[s].loaded, item.product_id)
                     ELSE sess[s].loaded
       IN IF /\ t.type = SALE
             /\ item.product_id \in DOMAIN loaded
             /\ below_cost(item.price, loaded[item.product_id].cost_price)
          THEN \* raise ValueError -> HTTP 400; get_db closes the session
               /\ sess' = [sess EXCEPT ![s] = Idle]
               /\ resp' = [resp EXCEPT ![s] =
                             [kind |-> "PricingViolation", status |-> 400,
                              product_id |-> item.product_id, price |-> item.price,
                              cost_price |-> loaded[item.product_id].cost_price]]
          ELSE /\ sess' = [sess EXCEPT ![s].i = @ + 1,
                                       ![s].subtotal = @ + item_net(item),
                                       ![s].total_discount = @ + item.discount,
                                       ![s].loaded = loaded]
               /\ UNCHANGED resp
    /\ UNCHANGED <<products, transactions, transaction_items, next_id, reqs>>
    /\ UNCHANGED not_poster

\* total, db.add(db_transaction), db.commit(), db.refresh(db_transaction)
InsertTransaction(s) ==
    /\ sess[s].pc = "validate"
    /\ sess[s].i > Len(sess[s].transaction.items)
    /\ LET t == sess[s].transaction
           vat_percent == getattr_vat_percent(t)
           total == compute_total(sess[s].subtotal, vat_percent)
       IN /\ transactions' = Append(transactions,
                [id |-> next_id.txn, type |-> t.type, partner_id |-> t.partner_id,
                 total_amount |-> total, vat_percent |-> vat_percent,
                 sales_person |-> t.sales_person])
          /\ next_id' = [next_id EXCEPT !.txn = @ + 1]
          /\ sess' = [sess EXCEPT ![s].pc = "stock", ![s].i = 1,
                                  ![s].txn_id = next_id.txn,
                                  ![s].loaded = EmptyMap]
    /\ UNCHANGED <<products, transaction_items, resp, reqs>>
    /\ UNCHANGED not_poster

\* mutant: a sale adds to the stock as a purchase does
apply_stock_always_adds(type, stock_quantity, quantity) == stock_quantity + quantity

\* product.stock_quantity after the stock effect of one line
apply_stock(type, stock_quantity, quantity) ==
    IF type = PURCHASE THEN stock_quantity + quantity
    ELSE IF type = SALE THEN stock_quantity - quantity
    ELSE stock_quantity

\* one round of the second loop: db.add(db_item) and the stock effect
StockItem(s) ==
    /\ sess[s].pc = "stock"
    /\ sess[s].i <= Len(sess[s].transaction.items)
    /\ LET t == sess[s].transaction
           item == t.items[sess[s].i]
           pid == item.product_id
           db_item == [transaction_id |-> sess[s].txn_id, product_id |-> pid,
                       quantity |-> item.quantity, price |-> item.price,
                       discount |-> item.discount]
           loaded == query_product(sess[s].loaded, pid)
       IN IF /\ pid \in DOMAIN loaded
             /\ t.type = SALE
             /\ not_enough_stock(loaded[pid].stock_quantity, item.quantity)
          THEN \* raise ValueError -> HTTP 400; the session is closed uncommitted
               /\ sess' = [sess EXCEPT ![s] = Idle]
               /\ resp' = [resp EXCEPT ![s] =
                             [kind |-> "InsufficientStock", status |-> 400,
                              product_id |-> pid,
                              available |-> loaded[pid].stock_quantity,
                              requested |-> item.quantity]]
          ELSE /\ sess' = [sess EXCEPT
                             ![s].i = @ + 1,
                             ![s].pending = Append(@, db_item),
                             ![s].loaded =
                                IF pid \in DOMAIN loaded
                                THEN [loaded EXCEPT ![pid] =
                                        [@ EXCEPT !.stock_quantity =
                                                     apply_stock(t.type, @, item.quantity),
                                                  !.dirty = TRUE]]
                                ELSE loaded]
               /\ UNCHANGED resp
    /\ UNCHANGED <<products, transactions, transaction_items, next_id, reqs>>
    /\ UNCHANGED not_poster

\* a pending item names a product no row has: ForeignKey("products.id")
dangling(pending) ==
    \E i \in 1..Len(pending) : pending[i].product_id \notin DOMAIN products

\* the final db.commit(): the pending items and the modified products are
\* written.  The PostgreSQL engine enforces the foreign keys and fails the
\* commit of a dangling item (IntegrityError -> HTTP 500, nothing of this
\* commit is written); the SQLite engine does not check them.
CommitPost(s) ==
    /\ sess[s].pc = "stock"
    /\ sess[s].i > Len(sess[s].transaction.items)
    /\ \/ /\ transaction_items' =
                transaction_items \o with_ids(sess[s].pending, next_id.item)
          /\ next_id' = [next_id EXCEPT !.item = @ + Len(sess[s].pending)]
          /\ products' = flush_products(sess[s].loaded)
          /\ resp' = [resp EXCEPT ![s] =
                        [kind |-> "ok", status |-> 200, txn_id |-> sess[s].txn_id]]
       \/ /\ dangling(sess[s].pending)
          /\ resp' = [resp EXCEPT ![s] =
                        [kind |-> "error", status |-> 500,
                         exception |-> "IntegrityError"]]
          /\ UNCHANGED <<products, transaction_items, next_id>>
    /\ sess' = [sess EXCEPT ![s] = Idle]
    /\ UNCHANGED <<transactions, reqs>>
    /\ UNCHANGED not_poster

\* ---------------------------------------------------------- update_product

\* mutant: the update also rewrites the price of the stored items of the product
update_product_repricing_items(pid, product) ==
    /\ reqs < MaxRequests
    /\ reqs' = reqs + 1
    /\ IF product.price < product.cost_price \/ pid \notin DOMAIN products
       THEN UNCHANGED <<products, transaction_items>>
       ELSE /\ products' = [products EXCEPT ![pid] = product]
            /\ transaction_items' =
                  [i \in 1..Len(transaction_items) |->
                      IF transaction_items[i].product_id = pid
                      THEN [transaction_items[i] EXCEPT !.price = product.price]
                      ELSE transaction_items[i]]
    /\ UNCHANGED <<transactions, next_id, sess, resp>>
    /\ UNCHANGED not_poster

\* main.update_product + crud.update_product: every field of the body is set
update_product(pid, product) ==
    /\ reqs < MaxRequests
    /\ reqs' = reqs + 1
    /\ IF product.price < product.cost_price
       THEN UNCHANGED products
       ELSE IF pid \in DOMAIN products
            THEN products' = [products EXCEPT ![pid] = product]
            ELSE UNCHANGED products
    /\ UNCHANGED <<transactions, transaction_items, next_id, sess, resp>>
    /\ UNCHANGED not_poster

\* -------------------------------------------------------------- behaviours

Next ==
    \/ \E s \in Sessions, body \in Bodies : BeginPost(s, body)
    \/ \E s \in Sessions : ValidateItem(s)
    \/ \E s \in Sessions : InsertTransaction(s)
    \/ \E s \in Sessions : StockItem(s)
    \/ \E s \in Sessions : CommitPost(s)
    \/ \E pid \in ProductIds, product \in ProductBodies : update_product(pid, product)

Spec == Init /\ [][Next]_vars

\* the posting endpoint alone, its requests served concurrently
NextPosts ==
    \/ \E s \in Sessions, body \in Bodies : BeginPost(s, body)
    \/ \E s \in Sessions : ValidateItem(s)
    \/ \E s \in Sessions : InsertTransaction(s)
    \/ \E s \in Sessions : StockItem(s)
    \/ \E s \in Sessions : CommitPost(s)

SpecPosts == Init /\ [][NextPosts]_vars

\* one posting, served alone, for every body and every seeded catalogue
InitSeq ==
    /\ products \in [ProductIds -> SeedProducts]
    /\ transactions = <<>>
    /\ transaction_items = <<>>
    /\ next_id = [txn |-> 1, item |-> 1]
    /\ \E body \in WideBodies :
          sess = [s \in Sessions |-> IF s = 1 THEN Posting(body) ELSE Idle]
    /\ resp = [s \in Sessions |-> NoResponse]
    /\ reqs = MaxRequests
    /\ RenderIdle /\ WordsIdle /\ SkuIdle /\ LimiterIdle /\ TotalsIdle

NextSeq ==
    \/ ValidateItem(1)
    \/ InsertTransaction(1)
    \/ StockItem(1)
    \/ CommitPost(1)

SpecSeq == InitSeq /\ [][NextSeq]_vars

\* ------------------------------------- update_transaction, delete_transaction

\* a product id no row of the catalogue has
MissingProductId == 3

\* lines of the bodies sent to the transaction endpoints: a line at list
\* price, a line priced below cost, a line of a product that does not exist
TxnLines ==
    {[product_id |-> 1, quantity |-> 2, price |-> 3, discount |-> 0],
     [product_id |-> 2, quantity |-> 1, price |-> 1, discount |-> 0],
     [product_id |-> MissingProductId, quantity |-> 1, price |-> 3, discount |-> 1]}

TxnBodies ==
    [partner_id : PartnerIds, type : {PURCHASE, SALE},
     items : {<<l>> : l \in TxnLines}
             \cup {<<l, m>> : l \in {x \in TxnLines : x.product_id = 1},
                              m \in TxnLines},
     vat_percent : {0}]

\* ids a caller may name in PUT and DELETE /transactions/{id}
TransactionIds == {1, 2}

\* the parse of the PUT body: sales_person is what the body gives (nothing)
UpdateBody(body) == [TransactionCreate(body) EXCEPT !.sales_person = "None"]

\* db.query(models.Transaction).filter(id == transaction_id): the rows found
query_transaction(transaction_id) ==
    {i \in 1..Len(transactions) : transactions[i].id = transaction_id}

\* mutant: the lookup is taken to have found a row
not_db_transaction_never(found) == FALSE

\* if not db_transaction
not_db_transaction(found) == found = {}

\* mutant: the items of the transaction are left in the table
delete_items_keeps_all(transaction_id) == transaction_items

\* db.query(models.TransactionItem).filter(transaction_id == id).delete()
delete_items(transaction_id) ==
    SelectSeq(transaction_items, LAMBDA it : it.transaction_id # transaction_id)

\* the first loop of update_transaction: does a sale line of a product that
\* exists undercut the product's cost price
price_check_raises(transaction) ==
    /\ transaction.type = SALE
    /\ \E i \in 1..Len(transaction.items) :
          LET item == transaction.items[i]
          IN  /\ item.product_id \in DOMAIN products
              /\ below_cost(item.price, products[item.product_id].cost_price)

RECURSIVE subtotal_of(_)
subtotal_of(items) ==
    IF items = <<>> THEN 0 ELSE item_net(Head(items)) + subtotal_of(Tail(items))

\* the TransactionItem rows built from the submitted lines
new_items(transaction_id, items) ==
    [i \in 1..Len(items) |->
        [transaction_id |-> transaction_id, product_id |-> items[i].product_id,
         quantity |-> items[i].quantity, price |-> items[i].price,
         discount |-> items[i].discount]]

\* PUT /transactions/{id}: main.update_transaction and crud.update_transaction,
\* served alone.  The old items are deleted and that is committed; the field
\* assignments that follow stay in the session until the next commit, and an
\* exception on the way leaves the handler with HTTP 500 and closes the session.
update_transaction(s, transaction_id, body) ==
    /\ sess[s].pc = "idle"
    /\ reqs < MaxRequests
    /\ reqs' = reqs + 1
    /\ LET transaction == UpdateBody(body)
           found == query_transaction(transaction_id)
           raised ==
               IF "vat_percent" \notin DOMAIN transaction THEN "AttributeError"
               ELSE IF price_check_raises(transaction) THEN "ValueError"
               ELSE "none"
           vat_percent ==
               IF "vat_percent" \in DOMAIN transaction
               THEN transaction.vat_percent ELSE 0
       IN  IF not_db_transaction(found)
           THEN /\ resp' = [resp EXCEPT ![s] = [kind |-> "NotFound", status |-> 404]]
                /\ UNCHANGED <<transactions, transaction_items, next_id>>
           ELSE IF raised # "none"
           THEN /\ transaction_items' = delete_items(transaction_id)
                /\ resp' = [resp EXCEPT ![s] =
                              [kind |-> "error", status |-> 500,
                               exception |-> raised]]
                /\ UNCHANGED <<transactions, next_id>>
           ELSE /\ transactions' =
                      [i \in 1..Len(transactions) |->
                          IF i \in found
                          THEN [transactions[i] EXCEPT
                                  !.type = transaction.type,
                                  !.partner_id = transaction.partner_id,
                                  !.vat_percent = vat_percent,
                                  !.sales_person = transaction.sales_person,
                                  !.total_amount =
                                      compute_total(subtotal_of(transaction.items),
                                                    vat_percent)]
                          ELSE transactions[i]]
                /\ transaction_items' =
                      delete_items(transaction_id)
                      \o with_ids(new_items(transaction_id, transaction.items),
                                  next_id.item)
                /\ next_id' = [next_id EXCEPT !.item = @ + Len(transaction.items)]
                /\ resp' = [resp EXCEPT ![s] =
                              [kind |-> "ok", status |-> 200,
                               txn_id |-> transaction_id]]
    /\ UNCHANGED <<products, sess>>
    /\ UNCHANGED not_poster

\* mutant: the delete puts a unit back into stock for every line it removes
delete_transaction_restocking(s, transaction_id) ==
    /\ sess[s].pc = "idle"
    /\ reqs < MaxRequests
    /\ reqs' = reqs + 1
    /\ LET found == query_transaction(transaction_id)
       IN  IF not_db_transaction(found)
           THEN /\ resp' = [resp EXCEPT ![s] = [kind |-> "NotFound", status |-> 404]]
                /\ UNCHANGED <<products, transactions, transaction_items>>
           ELSE /\ transaction_items' = delete_items(transaction_id)
                /\ transactions' =
                      SelectSeq(transactions, LAMBDA t : t.id # transaction_id)
                /\ products' =
                      [p \in DOMAIN products |->
                          [products[p] EXCEPT !.stock_quantity = @ +
                              Cardinality({i \in 1..Len(transaction_items) :
                                  /\ transaction_items[i].transaction_id = transaction_id
                                  /\ transaction_items[i].product_id = p})]]
                /\ resp' = [resp EXCEPT ![s] = [kind |-> "deleted", status |-> 200]]
    /\ UNCHANGED <<next_id, sess>>
    /\ UNCHANGED not_poster

\* DELETE /transactions/{id}: main.delete_transaction and
\* crud.delete_transaction, served alone
delete_transaction(s, transaction_id) ==
    /\ sess[s].pc = "idle"
    /\ reqs < MaxRequests
    /\ reqs' = reqs + 1
    /\ LET found == query_transaction(transaction_id)
       IN  IF not_db_transaction(found)
           THEN /\ resp' = [resp EXCEPT ![s] = [kind |-> "NotFound", status |-> 404]]
                /\ UNCHANGED <<transactions, transaction_items>>
           ELSE /\ transaction_items' = delete_items(transaction_id)
                /\ transactions' =
                      SelectSeq(transactions, LAMBDA t : t.id # transaction_id)
                /\ resp' = [resp EXCEPT ![s] = [kind |-> "deleted", status |-> 200]]
    /\ UNCHANGED <<products, next_id, sess>>
    /\ UNCHANGED not_poster

\* bodies of PUT /products/{id} sent between the transaction requests
TxnProductBodies ==
    {[price |-> 5, cost_price |-> 4, stock_quantity |-> 3],
     [price |-> 3, cost_price |-> 1, stock_quantity |-> 3]}

\* the transaction endpoints and the product update, one request at a time
NextTxn ==
    \/ \E body \in TxnBodies : BeginPost(1, body)
    \/ ValidateItem(1)
    \/ InsertTransaction(1)
    \/ StockItem(1)
    \/ CommitPost(1)
    \/ \E id \in TransactionIds, body \in TxnBodies : update_transaction(1, id, body)
    \/ \E id \in TransactionIds : delete_transaction(1, id)
    \/ \E pid \in ProductIds, product \in TxnProductBodies :
          sess[1].pc = "idle" /\ update_product(pid, product)

SpecTxn == Init /\ [][NextTxn]_vars

\* --------------------------------------------- create_product, import_products

\* bodies of POST /products/ and rows of an imported sheet
CatalogBodies == [price : {1, 3, 4}, cost_price : {2, 3}, stock_quantity : {0}]

\* the sheets sent to POST /import-products/: their rows, top to bottom
Sheets == {<<r>> : r \in CatalogBodies} \cup {<<r, q>> : r, q \in CatalogBodies}

\* mutant: no selling price is found to be below the cost price
price_below_cost_never(product) == FALSE

\* if product.price < product.cost_price (create), if price < cost_price (import)
price_below_cost(product) == product.price < product.cost_price

\* db.add(db_product); db.commit(): the row gets the next id of the table
insert_product(table, product) ==
    LET id == Cardinality(DOMAIN table) + 1
    IN  [p \in DOMAIN table \cup {id} |-> IF p = id THEN product ELSE table[p]]

\* main.create_product + crud.create_product
create_product(product) ==
    /\ reqs < MaxRequests
    /\ reqs' = reqs + 1
    /\ IF price_below_cost(product)
       THEN UNCHANGED products
       ELSE products' = insert_product(products, product)
    /\ UNCHANGED <<transactions, transaction_items, next_id, sess, resp>>
    /\ UNCHANGED not_poster

\* the loop over the rows of the sheet: every row is created and committed in
\* its turn, and a row priced below cost raises and ends the import
RECURSIVE import_rows(_, _)
import_rows(table, rows) ==
    IF rows = <<>> THEN table
    ELSE IF price_below_cost(Head(rows)) THEN table
    ELSE import_rows(insert_product(table, Head(rows)), Tail(rows))

\* main.import_products
import_products(rows) ==
    /\ reqs < MaxRequests
    /\ reqs' = reqs + 1
    /\ products' = import_rows(products, rows)
    /\ UNCHANGED <<transactions, transaction_items, next_id, sess, resp>>
    /\ UNCHANGED not_poster

NextCatalog ==
    \/ \E product \in CatalogBodies : create_product(product)
    \/ \E pid \in ProductIds, product \in CatalogBodies : update_product(pid, product)
    \/ \E rows \in Sheets : import_products(rows)

SpecCatalog == Init /\ [][NextCatalog]_vars

\* ------------------------------------------------- crud.create_product, SKU
\* A SKU is a text: a stem and the numbers appended to it with hyphens, so
\* that "A-1" asked for by a client and "A-1" made from "A" are the same SKU.

MaxProducts == 4    \* calls of create_product

Stems == {"A", "B"}

\* product.sku of the requests: "A", "A-1", "B", "B-1"
RequestedSkus == [stem : Stems, suffix : {<<>>, <<1>>}]

\* f"{base_sku}-{counter}"
format_sku(base_sku, counter) ==
    [stem |-> base_sku.stem, suffix |-> Append(base_sku.suffix, counter)]

\* mutant: only a SKU without a number is looked up
sku_taken_unnumbered_only(sku) ==
    sku.suffix = <<>> /\ \E i \in 1..Len(skus) : skus[i] = sku

\* db.query(models.Product).filter(models.Product.sku == sku).first()
sku_taken(sku) == \E i \in 1..Len(skus) : skus[i] = sku

\* the unique index on products.sku refuses the INSERT
unique_violation(sku) == \E i \in 1..Len(skus) : skus[i] = sku

\* sku = product.sku; base_sku = sku; counter = 1
BeginCreate(sku) ==
    /\ mk.pc = "idle"
    /\ Len(skus) < Cardinality(ProductIds) + MaxProducts
    /\ mk' = [pc |-> "search", base_sku |-> sku, sku |-> sku, counter |-> 1]
    /\ UNCHANGED skus
    /\ UNCHANGED not_sku

\* one turn of the while loop: the SKU is taken, the next one is tried
SkuLoop ==
    /\ mk.pc = "search"
    /\ sku_taken(mk.sku)
    /\ mk' = [mk EXCEPT !.sku = format_sku(mk.base_sku, mk.counter),
                        !.counter = mk.counter + 1]
    /\ UNCHANGED skus
    /\ UNCHANGED not_sku

\* the loop ends; db.add(db_product); db.commit()
AddProduct ==
    /\ mk.pc = "search"
    /\ ~sku_taken(mk.sku)
    /\ skus' = IF unique_violation(mk.sku) THEN skus ELSE Append(skus, mk.sku)
    /\ mk' = [pc |-> "idle"]
    /\ UNCHANGED not_sku

NextSku ==
    \/ \E sku \in RequestedSkus : BeginCreate(sku)
    \/ SkuLoop
    \/ AddProduct

\* a call that has begun keeps running
SpecSku == Init /\ [][NextSku]_vars /\ WF_vars(SkuLoop \/ AddProduct)

\* ------------------------------------------------------ generate_invoice_pdf
\* Lengths are held in units of 1/127 pt, in which a point (Pt) and a
\* millimetre (72/25.4 pt) are both whole numbers.

Pt == 127
mm == 360

PAGE_HEIGHT == 297 * mm
MARGIN_TOP == 12 * mm

Max(a, b) == IF a >= b THEN a ELSE b
Min(a, b) == IF a <= b THEN a ELSE b

row_height == 16 * Pt
fixed_bottom_section == 300 * Pt
header_height == 140 * Pt
table_header_height == row_height

page_height == PAGE_HEIGHT - MARGIN_TOP

available_page_1 ==
    page_height - header_height - table_header_height - fixed_bottom_section
items_page_1 == Max(5, available_page_1 \div row_height)

available_page_other ==
    page_height - 20 * Pt - table_header_height - fixed_bottom_section
items_page_other == Max(10, available_page_other \div row_height)

\* the while loop and the trailing if of the page distribution
RECURSIVE rest_pages(_)
rest_pages(remaining) ==
    IF remaining > items_page_other
    THEN <<items_page_other>> \o rest_pages(remaining - items_page_other)
    ELSE IF remaining > 0 THEN <<remaining>> ELSE <<>>

\* mutant: the first page is given the capacity of a continuation page
items_per_page_one_capacity(actual_items) ==
    IF actual_items <= items_page_other
    THEN <<actual_items>>
    ELSE <<items_page_other>> \o rest_pages(actual_items - items_page_other)

items_per_page(actual_items) ==
    IF actual_items <= items_page_1
    THEN <<actual_items>>
    ELSE <<items_page_1>> \o rest_pages(actual_items - items_page_1)

\* the rows of the invoice, each standing for itself by its position
item_rows(n_items) == [i \in 1..n_items |-> i]

page_items_from_start(rows, current_item_idx, items_this_page) ==
    SubSeq(rows, 1, Min(items_this_page, Len(rows)))

\* item_rows[current_item_idx:current_item_idx + items_this_page]
page_items(rows, current_item_idx, items_this_page) ==
    SubSeq(rows, current_item_idx + 1,
           Min(current_item_idx + items_this_page, Len(rows)))

chars_per_line == 24

\* name_lines, address_lines
lines_of(len) == Max(1, (len + chars_per_line - 1) \div chars_per_line)

customer_box_height(name_len, address_len) ==
    Max(45 * Pt,
        (lines_of(name_len) + lines_of(address_len) + 1) * 10 * Pt + 8 * Pt * 2)

\* the y at which the items table starts on page 1
draw_header(name_len, address_len) ==
    LET row_top_y == PAGE_HEIGHT - 8 * mm - 85 * Pt - 12 * Pt
    IN  row_top_y - Max(customer_box_height(name_len, address_len), 4 * 11 * Pt)
                  - 30 * Pt

draw_table_header(start_y) == start_y - row_height

\* the y at which the table ends: the page's rows, and 5 totals rows if shown
draw_item_rows(start_y, n_rows, show_totals) ==
    start_y - (n_rows + (IF show_totals THEN 5 ELSE 0)) * row_height

in_words_height == 16 * Pt
footer_top == 116 * Pt
sig_line_y == footer_top + 30 * Pt

NameLens == {10, 30}
AddressLens == {0, 24, 48, 100}

\* what the invoice endpoint hands to the renderer
Invoices ==
    [n_items : 0..MaxItemRows, name_len : NameLens, address_len : AddressLens,
     partner : {"text"}, product : {"text"}, amounts : {"text"},
     date : {"text"}, edit_sales_person : {"text"}, sales_person : {"text"}]

\* GET/POST invoice: a call of the renderer for the stored invoice begins
generate_invoice ==
    /\ lay.pc = "idle"
    /\ Len(returned) < MaxCalls
    /\ lay' = [pc |-> "paginate"]
    /\ doc' = <<>>
    /\ UNCHANGED <<assets, inv, now, returned>>
    /\ UNCHANGED not_render

\* A field of the snapshot is "text" (a value), "missing" (no such key) or
\* "null" (the key holds None); a value read from it is Text, Empty or NoneValue.
Text == "text"
Empty == ""
NoneValue == "None"
FieldStates == {"text", "missing", "null"}

\* d.get(key, default)
dict_get(field, default) ==
    IF field = "missing" THEN default
    ELSE IF field = "null" THEN NoneValue
    ELSE Text

\* a or b
py_or(a, b) == IF a \in {NoneValue, Empty} THEN b ELSE a

\* d.get(key, {}).get(...): the second get is called on what the first
\* returned, and None has no get
chained_get_raises(field) == dict_get(field, "{}") = NoneValue

\* float(item.get(key, 0) or 0)
float_raises(field) == py_or(dict_get(field, "0"), "0") = NoneValue

\* len(sales_person)
len_raises(value) == value = NoneValue

\* format_date(date_str): '' for no date, the formatted date otherwise; an
\* exception inside is caught
format_date(date_str) == IF date_str \in {NoneValue, Empty} THEN Empty ELSE Text

\* edit_data.get('sales_person', '') or invoice_data.get('sales_person', '')
sales_person_of(snapshot) ==
    py_or(dict_get(snapshot.edit_sales_person, Empty),
          dict_get(snapshot.sales_person, Empty))

\* the item loop and the customer info: the exception they raise, if any
prepare_raises(snapshot) ==
    IF snapshot.n_items > 0 /\ float_raises(snapshot.amounts) THEN "TypeError"
    ELSE IF snapshot.n_items > 0 /\ chained_get_raises(snapshot.product)
    THEN "AttributeError"
    ELSE IF chained_get_raises(snapshot.partner) THEN "AttributeError"
    ELSE "none"

\* if os.path.exists(path): canvas_obj.drawImage(path, ...)
draw_image(asset) ==
    IF asset = "absent" THEN "skipped"
    ELSE IF asset = "unreadable" THEN "raised"
    ELSE "drawn"

\* mutant: the exception of the image draw leaves the try block
except_Exception_reraises(outcome) == outcome

\* try: ... except Exception as e: print(...)
except_Exception(outcome) == IF outcome = "raised" THEN "skipped" ELSE outcome

\* item rows, layout calculations (the page distribution), customer info
Paginate ==
    /\ lay.pc = "paginate"
    /\ lay' = IF prepare_raises(inv) # "none"
              THEN [pc |-> "failed", exception |-> prepare_raises(inv)]
              ELSE [pc |-> "render",
                    items_per_page |-> items_per_page(inv.n_items),
                    total_pages |-> Len(items_per_page(inv.n_items)),
                    page_num |-> 1,
                    current_item_idx |-> 0]
    /\ UNCHANGED <<assets, inv, doc, now, returned>>
    /\ UNCHANGED not_render

\* mutant: the table header row is drawn on the first page only
RenderPage_header_row_once ==
    /\ lay.pc = "render"
    /\ LET page_num == lay.page_num
           is_first_page == page_num = 1
           is_last_page == page_num = lay.total_pages
           items_this_page == lay.items_per_page[page_num]
           rows == page_items(item_rows(inv.n_items), lay.current_item_idx,
                              items_this_page)
           table_y == IF is_first_page
                      THEN draw_header(inv.name_len, inv.address_len)
                      ELSE PAGE_HEIGHT - MARGIN_TOP - 20 * Pt
           data_start_y == draw_table_header(table_y)
           table_end_y == draw_item_rows(data_start_y, Len(rows), is_last_page)
           header_image == except_Exception(draw_image(assets.header))
           footer_image == except_Exception(draw_image(assets.footer))
           exception ==
               IF is_first_page /\ header_image = "raised" THEN "OSError"
               ELSE IF is_last_page /\ len_raises(sales_person_of(inv))
               THEN "TypeError"
               ELSE IF is_last_page /\ footer_image = "raised" THEN "OSError"
               ELSE "none"
           page ==
               <<[op |-> "page_number", page_num |-> page_num,
                  total |-> lay.total_pages]>>
               \o (IF is_first_page
                   THEN <<[op |-> "header", bottom |-> table_y,
                           image |-> header_image = "drawn",
                           date |-> format_date(dict_get(inv.date, NoneValue))]>>
                   ELSE <<>>)
               \o (IF is_first_page
                   THEN <<[op |-> "table_header", top |-> table_y,
                           bottom |-> data_start_y]>>
                   ELSE <<>>)
               \o <<[op |-> "item_rows", rows |-> rows, top |-> data_start_y,
                     bottom |-> table_end_y]>>
               \o (IF is_last_page
                   THEN <<[op |-> "totals",
                           top |-> data_start_y - Len(rows) * row_height,
                           bottom |-> table_end_y],
                          [op |-> "in_words", top |-> table_end_y,
                           bottom |-> table_end_y - in_words_height],
                          [op |-> "signature", top |-> sig_line_y + 20 * Pt,
                           bottom |-> sig_line_y, today |-> now],
                          [op |-> "footer", top |-> footer_top, bottom |-> 0,
                           image |-> footer_image = "drawn"]>>
                   ELSE <<>>)
       IN  IF exception # "none"
           THEN /\ lay' = [pc |-> "failed", exception |-> exception]
                /\ UNCHANGED doc
           ELSE /\ doc' = Append(doc, page)
                /\ lay' = [lay EXCEPT
                             !.pc = IF is_last_page THEN "save" ELSE "render",
                             !.page_num = page_num + 1,
                             !.current_item_idx = lay.current_item_idx + Len(rows)]
    /\ UNCHANGED <<assets, inv, now, returned>>
    /\ UNCHANGED not_render

\* one iteration of the render loop: a whole page
RenderPage ==
    /\ lay.pc = "render"
    /\ LET page_num == lay.page_num
           is_first_page == page_num = 1
           is_last_page == page_num = lay.total_pages
           items_this_page == lay.items_per_page[page_num]
           rows == page_items(item_rows(inv.n_items), lay.current_item_idx,
                              items_this_page)
           table_y == IF is_first_page
                      THEN draw_header(inv.name_len, inv.address_len)
                      ELSE PAGE_HEIGHT - MARGIN_TOP - 20 * Pt
           data_start_y == draw_table_header(table_y)
           table_end_y == draw_item_rows(data_start_y, Len(rows), is_last_page)
           header_image == except_Exception(draw_image(assets.header))
           footer_image == except_Exception(draw_image(assets.footer))
           exception ==
               IF is_first_page /\ header_image = "raised" THEN "OSError"
               ELSE IF is_last_page /\ len_raises(sales_person_of(inv))
               THEN "TypeError"
               ELSE IF is_last_page /\ footer_image = "raised" THEN "OSError"
               ELSE "none"
           page ==
               <<[op |-> "page_number", page_num |-> page_num,
                  total |-> lay.total_pages]>>
               \o (IF is_first_page
                   THEN <<[op |-> "header", bottom |-> table_y,
                           image |-> header_image = "drawn",
                           date |-> format_date(dict_get(inv.date, NoneValue))]>>
                   ELSE <<>>)
               \o <<[op |-> "table_header", top |-> table_y,
                     bottom |-> data_start_y],
                    [op |-> "item_rows", rows |-> rows, top |-> data_start_y,
                     bottom |-> table_end_y]>>
               \o (IF is_last_page
                   THEN <<[op |-> "totals",
                           top |-> data_start_y - Len(rows) * row_height,
                           bottom |-> table_end_y],
                          [op |-> "in_words", top |-> table_end_y,
                           bottom |-> table_end_y - in_words_height],
                          [op |-> "signature", top |-> sig_line_y + 20 * Pt,
                           bottom |-> sig_line_y, today |-> now],
                          [op |-> "footer", top |-> footer_top, bottom |-> 0,
                           image |-> footer_image = "drawn"]>>
                   ELSE <<>>)
       IN  IF exception # "none"
           THEN /\ lay' = [pc |-> "failed", exception |-> exception]
                /\ UNCHANGED doc
           ELSE /\ doc' = Append(doc, page)
                /\ lay' = [lay EXCEPT
                             !.pc = IF is_last_page THEN "save" ELSE "render",
                             !.page_num = page_num + 1,
                             !.current_item_idx = lay.current_item_idx + Len(rows)]
    /\ UNCHANGED <<assets, inv, now, returned>>
    /\ UNCHANGED not_render

\* c.save(); return buffer
Save ==
    /\ lay.pc = "save"
    /\ returned' = Append(returned, doc)
    /\ lay' = [pc |-> "idle"]
    /\ UNCHANGED <<assets, inv, doc, now>>
    /\ UNCHANGED not_render

\* a minute passes on the server's clock
Tick ==
    /\ now < MaxClock
    /\ now' = now + 1
    /\ UNCHANGED <<assets, inv, lay, doc, returned>>
    /\ UNCHANGED not_render

InitRender ==
    /\ PosterInit /\ WordsIdle /\ SkuIdle /\ LimiterIdle /\ TotalsIdle
    /\ assets = [header |-> "ok", footer |-> "ok"]
    /\ inv \in Invoices
    /\ lay = [pc |-> "idle"]
    /\ doc = <<>>
    /\ now = 0
    /\ returned = <<>>

\* image files and snapshots with fields missing or null
AssetStates == {"ok", "absent", "unreadable"}

Snapshots ==
    [n_items : {0, 1, 22}, name_len : {10}, address_len : {24},
     partner : FieldStates, product : FieldStates, amounts : {"text", "null"},
     date : {"text", "null"}, edit_sales_person : FieldStates,
     sales_person : FieldStates]

InitRobust ==
    /\ PosterInit /\ WordsIdle /\ SkuIdle /\ LimiterIdle /\ TotalsIdle
    /\ assets \in [header : AssetStates, footer : AssetStates]
    /\ inv \in Snapshots
    /\ lay = [pc |-> "idle"]
    /\ doc = <<>>
    /\ now = 0
    /\ returned = <<>>

NextRobust == generate_invoice \/ Paginate \/ RenderPage \/ Save

SpecRobust == InitRobust /\ [][NextRobust]_vars

NextRender == generate_invoice \/ Paginate \/ RenderPage \/ Save \/ Tick

SpecRender == InitRender /\ [][NextRender]_vars

\* ----------------------------------------------------------- number_to_words
\* An amount is held as whole fils plus tenths of a fils, and a text as
\* the list of its space-separated words; a hyphen inside a word is a
\* word "-" of its own, and a number printed in digits is one word per digit.

ones ==
    <<"", "One", "Two", "Three", "Four", "Five", "Six", "Seven", "Eight",
      "Nine", "Ten", "Eleven", "Twelve", "Thirteen", "Fourteen", "Fifteen",
      "Sixteen", "Seventeen", "Eighteen", "Nineteen">>

tens ==
    <<"", "", "Twenty", "Thirty", "Forty", "Fifty", "Sixty", "Seventy",
      "Eighty", "Ninety">>

digit == <<"0", "1", "2", "3", "4", "5", "6", "7", "8", "9">>

\* str(int(n))
RECURSIVE str(_)
str(n) ==
    IF n < 10 THEN <<digit[n + 1]>>
    ELSE str(n \div 10) \o <<digit[(n % 10) + 1]>>

RECURSIVE convert_int_to_words(_)
convert_int_to_words(n) ==
    IF n = 0 THEN <<>>
    ELSE IF n < 20 THEN <<ones[n + 1]>>
    ELSE IF n < 100 THEN
        <<tens[(n \div 10) + 1]>>
        \o (IF n % 10 # 0 THEN <<"-", ones[(n % 10) + 1]>> ELSE <<>>)
    ELSE IF n < 1000 THEN
        <<ones[(n \div 100) + 1], "Hundred">>
        \o (IF n % 100 # 0
            THEN <<"and">> \o convert_int_to_words(n % 100) ELSE <<>>)
    ELSE IF n < 1000000 THEN
        convert_int_to_words(n \div 1000) \o <<"Thousand">>
        \o (IF n % 1000 # 0 THEN convert_int_to_words(n % 1000) ELSE <<>>)
    ELSE str(n)

\* int(round(num * 1000)): to the nearest fils, a half to the even one
round(amount) ==
    IF amount.tenths > 5 THEN amount.fils + 1
    ELSE IF amount.tenths < 5 THEN amount.fils
    ELSE IF amount.fils % 2 = 0 THEN amount.fils
    ELSE amount.fils + 1

dinar_label_up_to_one(bd) ==
    IF bd <= 1 THEN <<"Bahraini", "Dinar">> ELSE <<"Bahraini", "Dinars">>

dinar_label(bd) ==
    IF bd = 1 THEN <<"Bahraini", "Dinar">> ELSE <<"Bahraini", "Dinars">>

number_to_words(amount) ==
    LET total_fils == round(amount)
        bd == total_fils \div 1000
        fils == total_fils % 1000
        bd_words == IF bd = 0 THEN <<"Zero">> ELSE convert_int_to_words(bd)
        result == bd_words \o dinar_label(bd)
    IN  (IF fils > 0
         THEN result \o <<"and">> \o convert_int_to_words(fils) \o <<"Fils">>
         ELSE result)
        \o <<"Only">>

Dinars ==
    (0..MaxDinars)
    \cup {99, 100, 101, 120, 999, 1000, 1001, 21021, 999999, 1000000}

FilsParts == {0, 1, 5, 19, 20, 21, 100, 500, 501, 999}

Amounts ==
    {[fils |-> d * 1000 + f, tenths |-> t] :
        d \in Dinars, f \in FilsParts, t \in {0, 4, 5, 6}}

\* the call number_to_words(num)
NumberToWords ==
    /\ words = <<>>
    /\ words' = number_to_words(num)
    /\ UNCHANGED num
    /\ UNCHANGED not_words

InitWords ==
    /\ PosterInit /\ RenderIdle /\ SkuIdle /\ LimiterIdle /\ TotalsIdle
    /\ num \in Amounts
    /\ words = <<>>

NextWords == NumberToWords

SpecWords == InitWords /\ [][NextWords]_vars

\* -------------------------------------------------- main.check_rate_limit
\* Handler threads call check_rate_limit for the address of their client.
\* The clock is int(time.time()): whole seconds, never going back.

MaxChecks == 6      \* calls of check_rate_limit

max_attempts == 5
window_seconds == 300

Addresses == {"10.0.0.1", "10.0.0.2"}

\* the seconds at which something happens: the first one, the last one of
\* the window that began then, and the first one after that window
Instants == {0, window_seconds - 1, window_seconds}

\* user_creation_attempts.get(ip, [])
attempts_get(ip) ==
    IF ip \in DOMAIN user_creation_attempts
    THEN user_creation_attempts[ip] ELSE <<>>

\* [t for t in attempts if now - t < window_seconds]
recent(attempts, t_now) ==
    SelectSeq(attempts, LAMBDA t : t_now - t < window_seconds)

\* mutant: the lock is taken whoever holds it
lock_available_always(holder) == TRUE

\* with user_creation_lock: the lock can be taken when nobody holds it
lock_available(holder) == holder = 0

Running == {t \in Threads : thr[t].pc # "idle"}

\* the call begins: now = int(time.time())
check_rate_limit(t, ip) ==
    /\ thr[t].pc = "idle"
    /\ BagCardinality(verdicts) + Cardinality(Running) < MaxChecks
    /\ thr' = [thr EXCEPT ![t] = [pc |-> "lock", ip |-> ip, now |-> clock]]
    /\ UNCHANGED <<clock, user_creation_attempts, user_creation_lock, verdicts>>
    /\ UNCHANGED not_limiter

\* with user_creation_lock: entered
AcquireLock(t) ==
    /\ thr[t].pc = "lock"
    /\ lock_available(user_creation_lock)
    /\ user_creation_lock' = t
    /\ thr' = [thr EXCEPT ![t].pc = "filter"]
    /\ UNCHANGED <<clock, user_creation_attempts, verdicts>>
    /\ UNCHANGED not_limiter

\* the call of thread t returns: the lock is released on the way out
Return(t, result) ==
    /\ user_creation_lock' = 0
    /\ verdicts' = verdicts (+) SetToBag({[ip |-> thr[t].ip,
                                           start |-> thr[t].now,
                                           end |-> clock,
                                           admitted |-> result]})
    /\ thr' = [thr EXCEPT ![t] = [pc |-> "idle"]]

\* attempts = ...get(ip, []); the old ones are dropped; return False when
\* max_attempts of them are left
FilterAttempts(t) ==
    /\ thr[t].pc = "filter"
    /\ LET attempts == recent(attempts_get(thr[t].ip), thr[t].now)
       IN  IF Len(attempts) >= max_attempts
           THEN Return(t, FALSE)
           ELSE /\ thr' = [thr EXCEPT ![t] =
                             [pc |-> "append", ip |-> thr[t].ip,
                              now |-> thr[t].now, attempts |-> attempts]]
                /\ UNCHANGED <<user_creation_lock, verdicts>>
    /\ UNCHANGED <<clock, user_creation_attempts>>
    /\ UNCHANGED not_limiter

\* attempts.append(now); user_creation_attempts[ip] = attempts; return True
AppendAttempt(t) ==
    /\ thr[t].pc = "append"
    /\ user_creation_attempts' =
          [a \in DOMAIN user_creation_attempts \cup {thr[t].ip} |->
              IF a = thr[t].ip THEN Append(thr[t].attempts, thr[t].now)
              ELSE user_creation_attempts[a]]
    /\ Return(t, TRUE)
    /\ UNCHANGED clock
    /\ UNCHANGED not_limiter

\* time passes
Advance ==
    /\ \E t \in Instants : t > clock /\ clock' = t
    /\ UNCHANGED <<user_creation_attempts, user_creation_lock, thr, verdicts>>
    /\ UNCHANGED not_limiter

NextLimiter ==
    \/ \E t \in Threads, ip \in Addresses : check_rate_limit(t, ip)
    \/ \E t \in Threads : AcquireLock(t) \/ FilterAttempts(t) \/ AppendAttempt(t)
    \/ Advance

SpecLimiter == Init /\ [][NextLimiter]_vars

\* ------------------------------------------------- Python float arithmetic
\* A Python float is an IEEE 754 binary64 number. A non-negative float is
\* held as [m, e], its value m * 2^e, with m a natural of exactly Precision
\* bits; 0.0 is [<<>>, 0]. A natural is the list of its digits to the base
\* Limb, lowest first, without leading zeros. Every operation computes the
\* exact result and rounds it to the nearest float, a tie to the one with an
\* even m.

Precision == 53

LimbBits == 15

Limb == 2 ^ LimbBits

\* digits an exact result is widened to before it is divided and rounded
WorkingLimbs == 6

\* the digits of a natural number
RECURSIVE limbs_of(_)
limbs_of(n) == IF n = 0 THEN <<>> ELSE <<n % Limb>> \o limbs_of(n \div Limb)

RECURSIVE trim(_)
trim(a) ==
    IF a = <<>> THEN <<>>
    ELSE IF a[Len(a)] = 0 THEN trim(SubSeq(a, 1, Len(a) - 1))
    ELSE a

\* the number of bits of a natural
bit_length(a) ==
    IF a = <<>> THEN 0
    ELSE (Len(a) - 1) * LimbBits
         + (CHOOSE k \in 1..LimbBits : 2 ^ (k - 1) <= a[Len(a)] /\ a[Len(a)] < 2 ^ k)

RECURSIVE add_limbs(_, _, _)
add_limbs(a, b, carry) ==
    IF a = <<>> /\ b = <<>> THEN (IF carry = 0 THEN <<>> ELSE <<carry>>)
    ELSE LET x == IF a = <<>> THEN 0 ELSE Head(a)
             y == IF b = <<>> THEN 0 ELSE Head(b)
             s == x + y + carry
         IN  <<s % Limb>> \o add_limbs(IF a = <<>> THEN <<>> ELSE Tail(a),
                                       IF b = <<>> THEN <<>> ELSE Tail(b),
                                       s \div Limb)

\* a - b for a >= b
RECURSIVE sub_limbs(_, _, _)
sub_limbs(a, b, borrow) ==
    IF a = <<>> THEN <<>>
    ELSE LET y == IF b = <<>> THEN 0 ELSE Head(b)
             s == Head(a) - y - borrow
         IN  <<IF s < 0 THEN s + Limb ELSE s>>
             \o sub_limbs(Tail(a), IF b = <<>> THEN <<>> ELSE Tail(b),
                          IF s < 0 THEN 1 ELSE 0)

\* a * k for a natural k < Limb
RECURSIVE mul_small(_, _, _)
mul_small(a, k, carry) ==
    IF a = <<>> THEN (IF carry = 0 THEN <<>> ELSE <<carry>>)
    ELSE LET s == Head(a) * k + carry
         IN  <<s % Limb>> \o mul_small(Tail(a), k, s \div Limb)

RECURSIVE mul_limbs(_, _)
mul_limbs(a, b) ==
    IF b = <<>> THEN <<>>
    ELSE LET rest == mul_limbs(a, Tail(b))
         IN  add_limbs(mul_small(a, Head(b), 0),
                       IF rest = <<>> THEN <<>> ELSE <<0>> \o rest, 0)

\* quotient and remainder of a by a natural d <= Limb
RECURSIVE div_small(_, _)
div_small(a, d) ==
    IF a = <<>> THEN [q |-> <<>>, r |-> 0]
    ELSE LET high == div_small(Tail(a), d)
             t == high.r * Limb + Head(a)
         IN  [q |-> <<t \div d>> \o high.q, r |-> t % d]

\* a * 2^k
shift_left(a, k) ==
    IF a = <<>> THEN <<>>
    ELSE [i \in 1..(k \div LimbBits) |-> 0]
         \o mul_small(a, 2 ^ (k % LimbBits), 0)

\* a \div 2^k, and whether a bit that was shifted out was set
shift_right(a, k) ==
    LET whole == k \div LimbBits
        part == div_small(SubSeq(a, whole + 1, Len(a)), 2 ^ (k % LimbBits))
    IN  [q |-> trim(part.q),
         sticky |-> part.r # 0 \/ \E i \in 1..whole : a[i] # 0]

Zero == [m |-> <<>>, e |-> 0]

\* the float nearest to (n / d) * 2^e, for naturals n and d, d <= Limb
nearest_float(n, d, e) ==
    IF n = <<>> THEN Zero
    ELSE LET s == IF Len(n) < WorkingLimbs
                  THEN (WorkingLimbs - Len(n)) * LimbBits ELSE 0
             dv == div_small(shift_left(n, s), d)
             q == trim(dv.q)
             t == bit_length(q) - Precision
             sh == shift_right(q, t - 1)
             kept == trim(div_small(sh.q, 2).q)
             sticky == sh.sticky \/ dv.r # 0
             up == sh.q[1] % 2 = 1 /\ (sticky \/ kept[1] % 2 = 1)
             m == IF up THEN add_limbs(kept, <<1>>, 0) ELSE kept
         IN  IF bit_length(m) > Precision
             THEN [m |-> trim(div_small(m, 2).q), e |-> e - s + t + 1]
             ELSE [m |-> m, e |-> e - s + t]

\* float(n) for a natural n
float(n) == nearest_float(limbs_of(n), 1, 0)

float_add(x, y) ==
    IF x = Zero THEN y
    ELSE IF y = Zero THEN x
    ELSE LET e == IF x.e < y.e THEN x.e ELSE y.e
         IN  nearest_float(add_limbs(shift_left(x.m, x.e - e),
                                     shift_left(y.m, y.e - e), 0), 1, e)

\* x - y for x >= y
float_sub(x, y) ==
    IF y = Zero THEN x
    ELSE LET e == IF x.e < y.e THEN x.e ELSE y.e
         IN  nearest_float(trim(sub_limbs(shift_left(x.m, x.e - e),
                                          shift_left(y.m, y.e - e), 0)), 1, e)

float_mul(x, y) ==
    IF x = Zero \/ y = Zero THEN Zero
    ELSE nearest_float(mul_limbs(x.m, y.m), 1, x.e + y.e)

\* x / d for a natural d
float_div(x, d) == nearest_float(x.m, d, x.e)

\* ------------------------------------- invoice aggregates and posted total
\* The item loop of generate_invoice_pdf and the subtotal loop of
\* create_transaction, run on the same items and VAT percent.

\* a line of the transaction: whole Dinars, so float(price) is exact
BillLines == [quantity : {1, 2}, price : {1, 3}, discount : {0, 1}]

VatPercents == {0, 5, 10}

Bills == [items : ItemLists(BillLines), vat_percent : VatPercents]

\* float(invoice_data.get('vat_percent', 0) or 0)
vat_percent_global == float(bill.vat_percent)

\* total_gross = 0 ... total_net_all = 0, before the first item
BeginAggregates ==
    /\ pdf_totals.pc = "idle"
    /\ bill.items # <<>>
    /\ pdf_totals' = [pc |-> "loop", idx |-> 0,
                      total_gross |-> Zero, total_discount_all |-> Zero,
                      total_amt_after_disc |-> Zero, total_vat_all |-> Zero,
                      total_net_all |-> Zero]
    /\ UNCHANGED <<bill, post_totals>>
    /\ UNCHANGED not_totals

\* one turn of: for idx, item in enumerate(items)
AggregateItem ==
    /\ pdf_totals.pc = "loop"
    /\ pdf_totals.idx < Len(bill.items)
    /\ LET item == bill.items[pdf_totals.idx + 1]
           price == float(item.price)
           qty == float(item.quantity)
           item_discount == float(item.discount)
           gross == float_mul(price, qty)
           amt_after_disc == float_sub(gross, item_discount)
           item_vat == IF vat_percent_global # Zero
                       THEN float_mul(amt_after_disc,
                                      float_div(vat_percent_global, PercentBase))
                       ELSE Zero
           net == float_add(amt_after_disc, item_vat)
       IN  pdf_totals' =
             [pdf_totals EXCEPT
                !.idx = @ + 1,
                !.total_gross = float_add(@, gross),
                !.total_discount_all = float_add(@, item_discount),
                !.total_amt_after_disc = float_add(@, amt_after_disc),
                !.total_vat_all = float_add(@, item_vat),
                !.total_net_all = float_add(@, net)]
    /\ UNCHANGED <<bill, post_totals>>
    /\ UNCHANGED not_totals

\* the loop is over: the aggregates are what the totals block prints
EndAggregates ==
    /\ pdf_totals.pc = "loop"
    /\ pdf_totals.idx = Len(bill.items)
    /\ pdf_totals' = [pdf_totals EXCEPT !.pc = "done"]
    /\ UNCHANGED <<bill, post_totals>>
    /\ UNCHANGED not_totals

\* subtotal = 0; total_discount = 0
BeginSubtotal ==
    /\ post_totals.pc = "idle"
    /\ bill.items # <<>>
    /\ post_totals' = [pc |-> "loop", idx |-> 0, subtotal |-> Zero,
                       total_discount |-> Zero]
    /\ UNCHANGED <<bill, pdf_totals>>
    /\ UNCHANGED not_totals

\* one turn of: for item in transaction.items
SubtotalItem ==
    /\ post_totals.pc = "loop"
    /\ post_totals.idx < Len(bill.items)
    /\ LET item == bill.items[post_totals.idx + 1]
           item_total == float_mul(float(item.price), float(item.quantity))
           item_discount == float(item.discount)
       IN  post_totals' =
             [post_totals EXCEPT
                !.idx = @ + 1,
                !.subtotal = float_add(@, float_sub(item_total, item_discount)),
                !.total_discount = float_add(@, item_discount)]
    /\ UNCHANGED <<bill, pdf_totals>>
    /\ UNCHANGED not_totals

\* total = subtotal + (subtotal * vat_percent / 100)
float_total(subtotal, vat_percent) ==
    float_add(subtotal,
              float_div(float_mul(subtotal, float(vat_percent)), PercentBase))

ComputeTotal ==
    /\ post_totals.pc = "loop"
    /\ post_totals.idx = Len(bill.items)
    /\ post_totals' =
          [pc |-> "done", subtotal |-> post_totals.subtotal,
           total_discount |-> post_totals.total_discount,
           total |-> float_total(post_totals.subtotal, bill.vat_percent)]
    /\ UNCHANGED <<bill, pdf_totals>>
    /\ UNCHANGED not_totals

InitTotals ==
    /\ PosterInit /\ RenderIdle /\ WordsIdle /\ SkuIdle /\ LimiterIdle
    /\ bill \in Bills
    /\ pdf_totals = [pc |-> "idle"]
    /\ post_totals = [pc |-> "idle"]

NextTotals ==
    \/ BeginAggregates \/ AggregateItem \/ EndAggregates
    \/ BeginSubtotal \/ SubtotalItem \/ ComputeTotal

SpecTotals == InitTotals /\ [][NextTotals]_vars

\* ------------------------------------------------------------------ claims

Rejected == {"PricingViolation", "InsufficientStock"}

\* worker s takes a step of its posting
Steps(s) == sess'[s] # sess[s]

StockOf(table) == [p \in DOMAIN table |-> table[p].stock_quantity]

\* the line a worker is about to handle
CurrentItem(s) == sess[s].transaction.items[sess[s].i]
HasCurrentItem(s) == sess[s].pc # "idle" /\ sess[s].i <= Len(sess[s].transaction.items)

\* total quantity of the lines of an item list that reference product p
RECURSIVE QuantityFor(_, _)
QuantityFor(items, p) ==
    IF items = <<>> THEN 0
    ELSE (IF Head(items).product_id = p THEN Head(items).quantity ELSE 0)
         + QuantityFor(Tail(items), p)

\* quantity of product p a sale in flight has passed the stock check for
Passed(s, p) ==
    IF sess[s].pc = "stock" /\ sess[s].transaction.type = SALE
    THEN QuantityFor(sess[s].pending, p)
    ELSE 0

\* C1: two sale postings in flight for the same product never have both passed
\* the stock check for more than the product's committed stock: of two sales
\* whose combined quantity exceeds the stock, one is rejected.
C1_OneSaleWins ==
    \A s1 \in Sessions, s2 \in Sessions, p \in ProductIds :
        (s1 # s2 /\ Passed(s1, p) > 0 /\ Passed(s2, p) > 0)
            => Passed(s1, p) + Passed(s2, p) <= products[p].stock_quantity

\* the stock_quantity a posting finds for product p: the row of the table when
\* it first reads it, the row it holds (less its earlier lines) afterwards
Found(s, p) ==
    IF p \in DOMAIN sess[s].loaded
    THEN sess[s].loaded[p].stock_quantity
    ELSE products[p].stock_quantity

\* C2: a sale line whose quantity exceeds the stock_quantity the posting finds
\* for its product ends the posting with InsufficientStock, and no step of a
\* posting other than its successful commit changes a committed stock_quantity
\* (so the lines before the failing one leave no trace).
C2_InsufficientStockRejects ==
    [][\A s \in Sessions :
        Steps(s) =>
          /\ (/\ sess[s].pc = "stock"
              /\ HasCurrentItem(s)
              /\ sess[s].transaction.type = SALE
              /\ CurrentItem(s).product_id \in DOMAIN products
              /\ CurrentItem(s).quantity > Found(s, CurrentItem(s).product_id))
             => (/\ resp'[s].kind = "InsufficientStock"
                 /\ sess'[s] = Idle
                 /\ transaction_items' = transaction_items)
          /\ resp'[s].kind # "ok" => StockOf(products') = StockOf(products)
      ]_vars

\* C2 witness: a sale was rejected on a line that follows a line of the same
\* posting which had passed the check, and the committed stock is as seeded.
C2_Witness ==
    \E s \in Sessions :
        /\ resp[s].kind = "InsufficientStock"
        /\ resp[s].available < products[resp[s].product_id].stock_quantity
        /\ StockOf(products) = [p \in ProductIds |-> InitProduct.stock_quantity]

C4_RejectedPersistsNothing ==
    [][\A s \in Sessions :
        (Steps(s) /\ sess[s].pc # "idle" /\ resp'[s].kind \in Rejected)
        => /\ \A k \in 1..Len(transactions') : transactions'[k].id # sess[s].txn_id
           /\ transaction_items' = transaction_items
           /\ products' = products
      ]_vars

Sign(type) == IF type = PURCHASE THEN 1 ELSE -1

\* C5: the commit of a posting changes the stock_quantity of every product by
\* the quantity of the posting's lines for it, added for a purchase and
\* subtracted for a sale; products without a line keep their stock_quantity.
C5_StockEffect ==
    [][\A s \in Sessions :
        (Steps(s) /\ sess[s].pc = "stock" /\ resp'[s].kind = "ok")
        => \A p \in ProductIds :
              products'[p].stock_quantity =
                  products[p].stock_quantity
                  + Sign(sess[s].body.type) * QuantityFor(sess[s].body.items, p)
      ]_vars

\* C5 witness: a two-line sale of product 1 was committed and took the whole
\* seeded stock, product 2 keeping its own.
C5_Witness ==
    /\ resp[1].kind = "ok"
    /\ Len(transactions) = 1 /\ transactions[1].type = SALE
    /\ Len(transaction_items) = 2
    /\ \A k \in 1..2 : transaction_items[k].product_id = 1
    /\ products[1].stock_quantity = 0
    /\ products[2].stock_quantity = 3

\* sum over the lines of price * quantity - discount
RECURSIVE NetSum(_)
NetSum(items) ==
    IF items = <<>> THEN 0
    ELSE Head(items).price * Head(items).quantity - Head(items).discount
         + NetSum(Tail(items))

\* C6: the Transaction row a posting stores has the submitted vat_percent and
\* total_amount = (sum of price * quantity - discount) * (1 + vat_percent/100),
\* in hundredths.
C6_TotalAndVat ==
    [][\A s \in Sessions :
        (Steps(s) /\ sess[s].pc = "validate" /\ sess'[s].pc = "stock")
        => LET row == transactions'[Len(transactions')]
               body == sess[s].body
           IN /\ row.vat_percent = body.vat_percent
              /\ row.total_amount = NetSum(body.items) * (PercentBase + body.vat_percent)
      ]_vars

\* ---- invoice renderer

Range(f) == {f[i] : i \in DOMAIN f}

RECURSIVE RowsOf(_)
RowsOf(d) ==
    IF d = <<>> THEN <<>>
    ELSE LET drawn == {i \in 1..Len(Head(d)) : Head(d)[i].op = "item_rows"}
         IN  (IF drawn = {} THEN <<>> ELSE Head(d)[CHOOSE i \in drawn : TRUE].rows)
             \o RowsOf(Tail(d))

HasOp(page, op) == \E i \in 1..Len(page) : page[i].op = op

OpOf(page, op) == page[CHOOSE i \in 1..Len(page) : page[i].op = op]

\* C7: for every number N >= 0 of items, the pages of a returned document
\* carry the N items exactly once each, in their original order (so the
\* per-page counts sum to N), and the totals block is drawn on the final
\* page and on no other.
C7_PagesPartitionItems ==
    \A d \in Range(returned) :
        /\ Len(d) >= 1
        /\ RowsOf(d) = item_rows(inv.n_items)
        /\ \A p \in 1..Len(d) :
              /\ Cardinality({i \in 1..Len(d[p]) : d[p][i].op = "item_rows"}) = 1
              /\ HasOp(d[p], "totals") <=> p = Len(d)

C7_Witness ==
    \E d \in Range(returned) :
        /\ Len(d) = 3
        /\ Len(OpOf(d[3], "item_rows").rows) = 1
        /\ HasOp(d[3], "totals")

\* C8: on the last page of a returned document the totals rows and the
\* amount-in-words row end at or above the top line of the signature block
\* (and so above the footer band), whatever the number of items and the
\* length of the customer's name and address.
C8_TotalsClearOfSignature ==
    \A d \in Range(returned) :
        LET last == d[Len(d)]
        IN  /\ OpOf(last, "totals").bottom >= OpOf(last, "signature").top
            /\ OpOf(last, "in_words").bottom >= OpOf(last, "signature").top
            /\ OpOf(last, "signature").bottom >= OpOf(last, "footer").top

\* C10: two documents returned for the same invoice snapshot and edit
\* metadata are the same document.
C10_SameInputSameDocument ==
    \A i, j \in 1..Len(returned) : returned[i] = returned[j]

\* ---- number_to_words

\* where the word Dinar or Dinars stands in the returned text
LabelAt == {k \in 1..Len(words) : words[k] \in {"Dinar", "Dinars"}}

\* C9: number_to_words splits the amount at 3 decimal places into Dinars and
\* Fils (1 Dinar = 1000 Fils); the label is "Bahraini Dinar" exactly when the
\* integer part is 1 and "Bahraini Dinars" otherwise, an integer part of 0 is
\* spelled "Zero", the phrase "and <words> Fils" follows the label exactly
\* when the fils part is not zero, and the text ends with "Only"; 1.000,
\* 1.500 and 0.000 give the three texts of the examples.
C9_DinarAndFilsLabels ==
    words # <<>> =>
        LET total_fils == round(num)
            bd == total_fils \div 1000
            fils == total_fils % 1000
            n == Len(words)
        IN  /\ Cardinality(LabelAt) = 1
            /\ \A k \in LabelAt :
                  /\ k >= 3
                  /\ words[k - 1] = "Bahraini"
                  /\ words[k] = "Dinar" <=> bd = 1
                  /\ bd = 0 <=> SubSeq(words, 1, k - 2) = <<"Zero">>
                  /\ IF fils # 0
                     THEN /\ n >= k + 4
                          /\ words[k + 1] = "and"
                          /\ words[n - 1] = "Fils"
                          /\ SubSeq(words, k + 2, n - 2)
                                = convert_int_to_words(fils)
                     ELSE n = k + 1
            /\ (\E i \in 1..n : words[i] = "Fils") <=> fils # 0
            /\ words[n] = "Only"
            /\ num = [fils |-> 1000, tenths |-> 0]
                  => words = <<"One", "Bahraini", "Dinar", "Only">>
            /\ num = [fils |-> 1500, tenths |-> 0]
                  => words = <<"One", "Bahraini", "Dinar", "and", "Five",
                               "Hundred", "Fils", "Only">>
            /\ num = [fils |-> 0, tenths |-> 0]
                  => words = <<"Zero", "Bahraini", "Dinars", "Only">>

C9_Witness ==
    /\ num = [fils |-> 1500, tenths |-> 0]
    /\ words = <<"One", "Bahraini", "Dinar", "and", "Five", "Hundred", "Fils",
                 "Only">>

\* ---- update_transaction, delete_transaction

\* C11: updateTransaction on an id no stored transaction has answers NotFound
\* and so does deleteTransaction (it returns false); neither changes a
\* transaction, an item or a stock quantity.
C11_MissingIdIsNotFound ==
    [][\A id \in TransactionIds :
          /\ query_transaction(id) = {}
          /\ \/ delete_transaction(1, id)
             \/ \E body \in TxnBodies : update_transaction(1, id, body)
          => /\ resp'[1] = [kind |-> "NotFound", status |-> 404]
             /\ UNCHANGED <<products, transactions, transaction_items>>]_vars

C11_Witness ==
    /\ resp[1].kind = "NotFound"
    /\ transactions # <<>>
    /\ transaction_items # <<>>

\* what a stored item row says of its line
LineOf(it) ==
    [product_id |-> it.product_id, quantity |-> it.quantity,
     price |-> it.price, discount |-> it.discount]

\* the lines stored for a transaction, in storage order
StoredLines(items, id) ==
    LET own == SelectSeq(items, LAMBDA it : it.transaction_id = id)
    IN  [i \in 1..Len(own) |-> LineOf(own[i])]

\* the stored row of a transaction
RowOf(table, id) == table[CHOOSE i \in 1..Len(table) : table[i].id = id]

\* PUT on a stored transaction
Updates(id, body) == query_transaction(id) # {} /\ update_transaction(1, id, body)

\* C12: updateTransaction on a stored transaction, with lines that break no
\* rule, succeeds, and after it the stored items of the transaction are
\* exactly the submitted lines (quantity, price and discount of each) and its
\* type, partner, VAT percent and total_amount are what postTransaction
\* computes for the same arguments.
C12_UpdateReplacesItems ==
    [][\A id \in TransactionIds, body \in TxnBodies :
          Updates(id, body) /\ ~price_check_raises(UpdateBody(body))
          => /\ resp'[1].kind = "ok"
             /\ StoredLines(transaction_items', id) = body.items
             /\ RowOf(transactions', id).type = body.type
             /\ RowOf(transactions', id).partner_id = body.partner_id
             /\ RowOf(transactions', id).vat_percent =
                   getattr_vat_percent(TransactionCreate(body))
             /\ RowOf(transactions', id).total_amount =
                   compute_total(NetSum(body.items),
                                 getattr_vat_percent(TransactionCreate(body)))]_vars

\* C13: updateTransaction with a sale line priced below the product's current
\* cost_price is rejected with PricingViolation, and the transaction's fields,
\* its previous items and every stock quantity are as before the call.
C13_UpdateRejectionKeepsAll ==
    [][\A id \in TransactionIds, body \in TxnBodies :
          Updates(id, body) /\ price_check_raises(UpdateBody(body))
          => /\ resp'[1].kind = "PricingViolation"
             /\ UNCHANGED <<products, transactions, transaction_items>>]_vars

\* C14: updateTransaction and deleteTransaction leave the stock_quantity of
\* every product as it is.
C14_UpdateDeleteKeepStock ==
    [][\A id \in TransactionIds :
          \/ delete_transaction(1, id)
          \/ \E body \in TxnBodies : update_transaction(1, id, body)
          => StockOf(products') = StockOf(products)]_vars

\* a sale of 2 from a stock of 3 was deleted with its items, the stock is 1
C14_Witness ==
    /\ resp[1].kind = "deleted"
    /\ transactions = <<>>
    /\ next_id.item > 1
    /\ products[1].stock_quantity = 1

\* the ids of the stored transactions
StoredIds(table) == {table[i].id : i \in 1..Len(table)}

\* C15: served one call at a time, postTransaction, updateTransaction and
\* deleteTransaction keep every stored item on a stored transaction, and when
\* deleteTransaction(id) returns true neither the transaction nor an item
\* with that transaction id is left.
C15_ItemsBelongToTransactions ==
    [][/\ \A i \in 1..Len(transaction_items') :
             transaction_items'[i].transaction_id \in StoredIds(transactions')
       /\ \A id \in TransactionIds :
             delete_transaction(1, id) /\ resp'[1].kind = "deleted"
             => /\ id \notin StoredIds(transactions')
                /\ StoredLines(transaction_items', id) = <<>>]_vars

\* a purchase of 2 was stored with its item and then deleted
C15_Witness ==
    /\ resp[1].kind = "deleted"
    /\ transactions = <<>>
    /\ transaction_items = <<>>
    /\ next_id.item > 1
    /\ products[1].stock_quantity = 5

\* ---- products

\* C16: after any product create, update and import request every stored
\* product has price >= cost_price, and a create or an update with
\* price < cost_price changes no product.
C16_PriceNeverBelowCost ==
    [][/\ \A p \in DOMAIN products' : products'[p].price >= products'[p].cost_price
       /\ \A product \in CatalogBodies :
             /\ product.price < product.cost_price
             /\ \/ create_product(product)
                \/ \E pid \in ProductIds : update_product(pid, product)
             => UNCHANGED products]_vars

\* a product was stored at a price equal to its cost and another was refused
C16_Witness ==
    /\ reqs = 2
    /\ Cardinality(DOMAIN products) = 3
    /\ products[3].price = products[3].cost_price

\* ---- references

\* the posting of worker s has a line of a product that does not exist
PostsMissingProduct(s) ==
    /\ sess[s].pc # "idle"
    /\ \E i \in 1..Len(sess[s].transaction.items) :
          sess[s].transaction.items[i].product_id \notin DOMAIN products

\* C17: a postTransaction with a line of a product id that does not exist
\* stores no transaction and no item, changes no stock, and ends with NotFound.
C17_MissingProductIsNotFound ==
    [][PostsMissingProduct(1)
       => /\ UNCHANGED <<products, transactions, transaction_items>>
          /\ sess'[1].pc = "idle" => resp'[1].kind = "NotFound"]_vars

\* C18: a product update, whatever it does to price and cost_price, leaves
\* the price and discount of every stored TransactionItem and the
\* total_amount of every stored Transaction as they are.
C18_StoredPricesAreCopies ==
    [][\A pid \in ProductIds, product \in TxnProductBodies :
          update_product(pid, product)
          => /\ Len(transaction_items') = Len(transaction_items)
             /\ \A i \in 1..Len(transaction_items) :
                   /\ transaction_items'[i].id = transaction_items[i].id
                   /\ transaction_items'[i].price = transaction_items[i].price
                   /\ transaction_items'[i].discount = transaction_items[i].discount
             /\ Len(transactions') = Len(transactions)
             /\ \A i \in 1..Len(transactions) :
                   /\ transactions'[i].id = transactions[i].id
                   /\ transactions'[i].total_amount = transactions[i].total_amount]_vars

\* an item of product 1 is stored at 3 and the product now sells at 5
C18_Witness ==
    /\ products[1].price = 5
    /\ \E i \in 1..Len(transaction_items) :
          transaction_items[i].product_id = 1 /\ transaction_items[i].price = 3
    /\ \E i \in 1..Len(transactions) : transactions[i].total_amount > 0

\* ---- renderer: assets and snapshot fields

\* a returned document has every item row, the totals and the amount in words
Complete(d) ==
    /\ Len(d) >= 1
    /\ RowsOf(d) = item_rows(inv.n_items)
    /\ HasOp(d[Len(d)], "totals")
    /\ HasOp(d[Len(d)], "in_words")

\* C19: a header or footer image that is absent, or whose draw raises, is
\* skipped and never aborts the rendering: for a snapshot with all its fields
\* the call does not fail, and the returned document has all pages, item
\* rows, totals and amount in words, with an image only where the file is good.
C19_ImagesAreBestEffort ==
    /\ prepare_raises(inv) = "none" /\ ~len_raises(sales_person_of(inv))
       => lay.pc # "failed"
    /\ \A d \in Range(returned) :
          /\ Complete(d)
          /\ OpOf(d[1], "header").image <=> assets.header = "ok"
          /\ OpOf(d[Len(d)], "footer").image <=> assets.footer = "ok"

C19_Witness ==
    /\ assets = [header |-> "unreadable", footer |-> "absent"]
    /\ inv.n_items = 22
    /\ \E d \in Range(returned) : Len(d) = 2 /\ Complete(d)

\* C20: whichever of partner, product, price/quantity/discount, date and
\* sales person is missing or null in the snapshot, generate_invoice_pdf does
\* not fail and returns a document.
C20_FieldsNeverFailRender ==
    lay.pc # "failed"

\* ---- renderer: order of the page elements

\* the names of the elements of a page, in the order they were emitted
OpsOf(page) == [i \in 1..Len(page) |-> page[i].op]

\* C21: page k of the n pages of a returned document emits the page-number
\* stamp "Page k of n", then on page 1 only the header block, then the table
\* header row, then the item rows, and on page n only, after the item rows,
\* the totals, the amount in words, the signature and the footer.
C21_ElementsInOrder ==
    \A d \in Range(returned) :
        \A k \in 1..Len(d) :
            /\ OpsOf(d[k]) =
                  <<"page_number">>
                  \o (IF k = 1 THEN <<"header">> ELSE <<>>)
                  \o <<"table_header", "item_rows">>
                  \o (IF k = Len(d)
                      THEN <<"totals", "in_words", "signature", "footer">>
                      ELSE <<>>)
            /\ d[k][1].page_num = k
            /\ d[k][1].total = Len(d)

\* a document of three pages: a first, a middle and a last one
C21_Witness ==
    \E d \in Range(returned) :
        /\ Len(d) = 3
        /\ OpsOf(d[2]) = <<"page_number", "table_header", "item_rows">>
        /\ d[3][1] = [op |-> "page_number", page_num |-> 3, total |-> 3]

\* ---- stock ledger

\* the type of the stored transaction an item belongs to
TypeOf(it) == RowOf(transactions, it.transaction_id).type

\* the stock effect of the stored items on product p: purchases add, sales take
RECURSIVE Effect(_, _)
Effect(items, p) ==
    IF items = <<>> THEN 0
    ELSE (IF Head(items).product_id = p
          THEN Sign(TypeOf(Head(items))) * Head(items).quantity ELSE 0)
         + Effect(Tail(items), p)

\* C22: after any interleaving of concurrent postTransaction calls the
\* committed stock of each product is its initial stock plus the quantities of
\* the successfully posted purchase lines minus those of the successfully
\* posted sale lines.
C22_StockIsLedger ==
    \A p \in ProductIds :
        products[p].stock_quantity =
            InitProduct.stock_quantity + Effect(transaction_items, p)

\* the sale posting of worker 1 asks for more of some product than is stored
AsksTooMuch ==
    \E p \in ProductIds :
        QuantityFor(sess[1].transaction.items, p) > products[p].stock_quantity

\* C23: a sale posting served alone whose lines of one product together
\* exceed the product's stock ends with InsufficientStock and leaves the
\* committed stock as it is; if no product is exceeded the posting succeeds
\* and each stock decreases by the combined quantity of its lines.
C23_LinesShareTheStock ==
    [][sess[1].pc = "stock" /\ sess[1].transaction.type = SALE
       => /\ sess'[1].pc # "idle" => UNCHANGED products
          /\ sess'[1].pc = "idle" /\ AsksTooMuch
             => resp'[1].kind = "InsufficientStock" /\ UNCHANGED products
          /\ sess'[1].pc = "idle" /\ ~AsksTooMuch
             => /\ resp'[1].kind = "ok"
                /\ \A p \in ProductIds :
                      products'[p].stock_quantity =
                          products[p].stock_quantity
                          - QuantityFor(sess[1].transaction.items, p)]_vars

\* a second line of 2 was refused on a stock of 3 the first line had taken 2 of
C23_Witness ==
    /\ resp[1].kind = "InsufficientStock"
    /\ resp[1].available = 1
    /\ resp[1].requested = 2
    /\ products[resp[1].product_id].stock_quantity = 3

\* ---- order of validation

\* line i of a sale is priced below the cost of its product
PriceViolation(items, i) ==
    below_cost(items[i].price, products[items[i].product_id].cost_price)

\* line i of a sale, with the lines before it of the same product, asks for
\* more than the product's stock
StockViolation(items, i) ==
    QuantityFor(SubSeq(items, 1, i), items[i].product_id)
        > products[items[i].product_id].stock_quantity

Violating(items) ==
    {i \in 1..Len(items) : PriceViolation(items, i) \/ StockViolation(items, i)}

Earliest(lines) == CHOOSE i \in lines : \A j \in lines : i <= j

\* C24: a sale with violating lines is answered with the error of its
\* earliest violating line, the pricing error if that line is priced below
\* cost and the stock error otherwise.
C24_EarliestViolationIsReturned ==
    [][/\ sess[1].pc # "idle"
       /\ sess[1].transaction.type = SALE
       /\ sess'[1].pc = "idle"
       /\ Violating(sess[1].transaction.items) # {}
       => LET items == sess[1].transaction.items
              k == Earliest(Violating(items))
          IN  /\ resp'[1].kind = IF PriceViolation(items, k)
                                 THEN "PricingViolation"
                                 ELSE "InsufficientStock"
              /\ resp'[1].product_id = items[k].product_id]_vars

\* ---- page distribution

\* the number of item rows drawn on page p of document d
RowCount(d, p) == Len(OpOf(d[p], "item_rows").rows)

\* C25: with first-page capacity C1 = items_page_1 and continuation
\* capacity C2 = items_page_other, a document of N <= C1 items is one page of
\* N rows; otherwise page 1 has C1 rows, every page between the first and
\* the last has C2 rows and the last page has 1..C2 rows, the page count is
\* 1 + ceil((N - C1) / C2), and no page is empty unless N = 0.
C25_GreedyPages ==
    \A d \in Range(returned) :
        LET N == inv.n_items
            C1 == items_page_1
            C2 == items_page_other
        IN  /\ N <= C1 => Len(d) = 1 /\ RowCount(d, 1) = N
            /\ N > C1 =>
                  /\ Len(d) = 1 + ((N - C1 + C2 - 1) \div C2)
                  /\ RowCount(d, 1) = C1
                  /\ \A p \in 2..(Len(d) - 1) : RowCount(d, p) = C2
                  /\ RowCount(d, Len(d)) \in 1..C2
            /\ \A p \in 1..Len(d) :
                  /\ RowCount(d, p) <= IF p = 1 THEN C1 ELSE C2
                  /\ RowCount(d, p) = 0 => N = 0

C25_Witness ==
    \E d \in Range(returned) :
        /\ inv.n_items > items_page_1 + items_page_other
        /\ Len(d) = 3
        /\ RowCount(d, 1) = items_page_1
        /\ RowCount(d, 2) = items_page_other
        /\ RowCount(d, 3) >= 1

\* ---- amount in words, large amounts

\* the English words number_to_words may use
Vocabulary ==
    (Range(ones) \cup Range(tens) \cup
     {"-", "Hundred", "Thousand", "and", "Zero", "Bahraini", "Dinar",
      "Dinars", "Fils", "Only"}) \ {""}

\* C26: for every amount with a non-negative integer part the returned
\* text is made of English cardinal words and the currency labels only; it
\* contains no digit character.
C26_SpelledWithoutDigits ==
    words # <<>> =>
        \A i \in 1..Len(words) :
            /\ words[i] \notin Range(digit)
            /\ words[i] \in Vocabulary

\* ---- SKU of a new product

\* C27: after any sequence of create_product calls the stored SKUs are
\* pairwise distinct; a call stores its product under the requested SKU when
\* that is free and otherwise under the first free "<sku>-<n>", n = 1, 2, ...;
\* and every call ends (the search for a free SKU terminates).
C27_DistinctSkus ==
    /\ [](\A i, j \in 1..Len(skus) : skus[i] = skus[j] => i = j)
    /\ [][mk.pc = "search" /\ mk'.pc = "idle"
            => LET asked == mk.base_sku
                   stored == skus'[Len(skus')]
               IN  /\ skus' = Append(skus, stored)
                   /\ IF asked \notin Range(skus)
                      THEN stored = asked
                      ELSE \E n \in 1..Len(skus) :
                              /\ stored = format_sku(asked, n)
                              /\ stored \notin Range(skus)
                              /\ \A k \in 1..(n - 1) :
                                    format_sku(asked, k) \in Range(skus)]_vars
    /\ (mk.pc = "search" ~> mk.pc = "idle")

\* "A" is taken: "A-1" asked for is stored as it is, then "A" asked for
\* twice becomes "A-2" and "A-3", and "A-1" asked for again becomes "A-1-1"
C27_Witness ==
    /\ mk.pc = "idle"
    /\ Len(skus) = 6
    /\ skus[3] = [stem |-> "A", suffix |-> <<1>>]
    /\ skus[4] = [stem |-> "A", suffix |-> <<2>>]
    /\ skus[5] = [stem |-> "A", suffix |-> <<3>>]
    /\ skus[6] = [stem |-> "A", suffix |-> <<1, 1>>]

\* ---- NET AMT of the invoice and total_amount of the posting

C29_StockNeverNegative ==
    \A p \in ProductIds : products[p].stock_quantity >= 0

\* two sales of 2 served at the same time from a stock of 3, both accepted
C29_Witness ==
    /\ \A s \in Sessions : sess[s].pc = "idle" /\ resp[s].kind = "ok"
    /\ \E p \in ProductIds :
          /\ Effect(transaction_items, p) = 0 - 4
          /\ products[p].stock_quantity = 1

\* ---- signup rate limit

\* the admitted calls for an address that began at or after second lo and
\* had returned by second hi
AdmittedIn(ip, lo, hi) ==
    LET inside == {v \in DOMAIN verdicts :
                      /\ v.ip = ip /\ v.admitted
                      /\ lo <= v.start /\ v.end <= hi}
    IN  BagCardinality([v \in inside |-> verdicts[v]])

====
